---- MODULE Spec2Model ----
(***************************************************************************)
(* State-machine model of VIDEO.C (DOS video adapter library, MS C 5.0,    *)
(* small model: int is 16 bits, long is 32 bits).                          *)
(*                                                                         *)
(*   vid_init      the adapter detection cascade, one action per probe,    *)
(*                 one action per iteration of the retrace poll loop       *)
(*   vid_map_attr  the monochrome attribute mapping                        *)
(*   vid_putc .. vid_box   the direct video memory output primitives       *)
(*                                                                         *)
(* Video memory is the set of cells the program has written, one record   *)
(* [addr, ch, attr] per cell: ch is the byte at far address addr, attr the *)
(* byte at addr + 1 (every cell not in the set keeps whatever the hardware *)
(* held).  BIOS calls and port reads are inputs: each one is drawn from a  *)
(* small set of values.                                                    *)
(***************************************************************************)
EXTENDS Integers, Sequences, FiniteSets, TLC

VARIABLES
    vid_base,           \* static char far *vid_base
    vid_adapter_type,   \* static int vid_adapter_type
    vid_mono,           \* static int vid_mono
    pc,                 \* position inside vid_init / "ready" after it returned
    regs,               \* union REGS regs (the registers the code reads)
    equip,              \* int equip
    i,                  \* int i (16-bit signed loop counter)
    val,                \* int val
    changed,            \* int changed
    retval,             \* the value vid_init returned
    port3DD,            \* last byte written to port 3DDh, -1 if never written
    vram,               \* video memory: the cells written so far
    probes,             \* history: the probes vid_init has performed
    via,                \* history: the step that classified (0: none yet)
    iolog,              \* history: port 3DDh traffic of this run, <<"out" or "in", byte>>
    polls,              \* history: reads of 3BAh inside the poll loop (saturating)
    nset,               \* history: assignments to vid_base / vid_mono / vid_adapter_type
    last,               \* history: the last public operation and its arguments
    writes,             \* history: memory writes of the last operation, in order
    nops                \* history: public operations called after vid_init

vars == <<vid_base, vid_adapter_type, vid_mono, pc, regs, equip, i, val, changed,
          retval, port3DD, vram, probes, via, iolog, polls, nset, last,
          writes, nops>>

(***************************************************************************)
(* Program constants                                                       *)
(***************************************************************************)
VID_MDA == 0
VID_HERCULES == 1
VID_CGA == 2
VID_EGA == 3
VID_VGA == 4
VID_PGA == 5
VID_MCGA == 6
VID_HERCPLUS == 7
VID_INCOLOR == 8
VID_COLORPLUS == 9

AdapterTypes == {VID_MDA, VID_HERCULES, VID_CGA, VID_EGA, VID_VGA, VID_PGA,
                 VID_MCGA, VID_HERCPLUS, VID_INCOLOR, VID_COLORPLUS}

VID_COLS == 80
VID_ROWS == 25
VID_BOX_H == 196
VID_BOX_V == 179
VID_BOX_TL == 218
VID_BOX_TR == 191
VID_BOX_BL == 192
VID_BOX_BR == 217

\* segments of the far pointers 0xB0000000L and 0xB8000000L
MonoSeg == 45056
ColorSeg == 47104
\* a far pointer is <<segment, offset>>
MonoBase == <<MonoSeg, 0>>
ColorBase == <<ColorSeg, 0>>
NullPtr == <<0, 0>>
\* the loop ceiling of the retrace poll
Ceiling == 32768
\* width of int on the target
IntBits == 16
SPACE == 32

(***************************************************************************)
(* Bounds of the model                                                     *)
(***************************************************************************)
MaxOps == 1

(***************************************************************************)
(* Machine arithmetic                                                      *)
(***************************************************************************)
Byte == 0..255
Word == 2^IntBits

\* value of a 16-bit pattern as a signed int
ToInt(x) == LET m == x % Word
            IN IF m >= Word \div 2 THEN m - Word ELSE m

RECURSIVE BitAndN(_, _, _)
BitAndN(a, b, n) ==
    IF n = 0 THEN 0
    ELSE (IF a % 2 = 1 /\ b % 2 = 1 THEN 1 ELSE 0)
         + 2 * BitAndN(a \div 2, b \div 2, n - 1)

RECURSIVE BitOrN(_, _, _)
BitOrN(a, b, n) ==
    IF n = 0 THEN 0
    ELSE (IF a % 2 = 1 \/ b % 2 = 1 THEN 1 ELSE 0)
         + 2 * BitOrN(a \div 2, b \div 2, n - 1)

\* a & b, a | b on ints (two's complement, 16 bits), result as signed int
BitAnd(a, b) == ToInt(BitAndN(a % Word, b % Word, IntBits))
BitOr(a, b) == ToInt(BitOrN(a % Word, b % Word, IntBits))
\* a >> k on a signed int (arithmetic shift, as the target does)
Shr(a, k) == a \div (2^k)
\* a << k on an int, kept to 16 bits
Shl(a, k) == ToInt(a * (2^k))
\* (char)x stored into a byte of memory
ToByte(x) == x % 256

\* far pointer plus an int offset: only the 16-bit offset part moves
FarAdd(p, off) == <<p[1], (p[2] + off) % Word>>

(***************************************************************************)
(* Inputs: what the firmware and the hardware may answer                   *)
(***************************************************************************)
\* display codes the switch of step 1 knows
KnownCodes == {1, 2, 4, 5, 6, 7, 8, 10, 11, 12}
\* INT 10h AH=1Ah: <<AL, BL>> on return
VideoStateAnswers ==
    {<<26, b>> : b \in KnownCodes \cup {0, 3, 255}} \cup {<<0, 0>>, <<0, 7>>}
\* INT 10h AH=12h BL=10h: <<BL, BH>> on return (BL = 10h: no EGA BIOS)
EgaAnswers == {<<16, 0>>, <<0, 0>>, <<2, 0>>, <<3, 1>>, <<1, 2>>}
\* bytes at C600:0300 (status) and C600:0000 (command)
PgaAnswers == {<<255, 0>>, <<0, 255>>, <<16, 0>>, <<0, 0>>, <<15, 18>>}
\* INT 11h: AX on return
EquipWords == {32, 16429, 49213}
\* port 3BAh reads
StatusBytes == {0, 144, 80, 160}
\* port 3DDh reads
ReadBacks == {85, 170, 255, 0}

(***************************************************************************)
(* Adapter detection: vid_set, vid_set_ex, detect_pga, vid_init            *)
(***************************************************************************)
vid_set(type, mono) ==
    [type |-> type, mono |-> mono,
     base |-> IF mono # 0 THEN MonoBase ELSE ColorBase]

vid_set_ex(type, mono, base) ==
    [type |-> type, mono |-> mono, base |-> base]

detect_pga(s, c) ==
    IF s = 255 THEN 0
    ELSE IF c = 255 THEN 0
    ELSE IF s > 15 THEN 0
    ELSE 1

\* the switch of step 1 with case 0x0B setting the flag of case 0x0A
DisplayCodeSwitch_Slip(bl) ==
    CASE bl = 1 -> vid_set(VID_MDA, 1)
      [] bl = 2 -> vid_set(VID_CGA, 0)
      [] bl = 4 -> vid_set(VID_EGA, 0)
      [] bl = 5 -> vid_set(VID_EGA, 1)
      [] bl = 6 -> vid_set(VID_PGA, 0)
      [] bl = 7 -> vid_set(VID_VGA, 1)
      [] bl = 8 -> vid_set(VID_VGA, 0)
      [] bl = 10 -> vid_set(VID_MCGA, 0)
      [] bl = 11 -> vid_set(VID_MCGA, 0)
      [] bl = 12 -> vid_set(VID_MCGA, 0)

\* the switch on regs.h.bl of step 1 (reached only with a case label)
DisplayCodeSwitch(bl) ==
    CASE bl = 1 -> vid_set(VID_MDA, 1)
      [] bl = 2 -> vid_set(VID_CGA, 0)
      [] bl = 4 -> vid_set(VID_EGA, 0)
      [] bl = 5 -> vid_set(VID_EGA, 1)
      [] bl = 6 -> vid_set(VID_PGA, 0)
      [] bl = 7 -> vid_set(VID_VGA, 1)
      [] bl = 8 -> vid_set(VID_VGA, 0)
      [] bl = 10 -> vid_set(VID_MCGA, 0)
      [] bl = 11 -> vid_set(VID_MCGA, 1)
      [] bl = 12 -> vid_set(VID_MCGA, 0)

\* the card ID switch with InColor set up by vid_set instead of vid_set_ex
CardIdSwitch_Slip(st) ==
    LET id == BitAnd(Shr(st, 4), 7)
    IN CASE id = 1 -> vid_set(VID_HERCPLUS, 1)
         [] id = 5 -> vid_set(VID_INCOLOR, 0)
         [] OTHER -> vid_set(VID_HERCULES, 1)

\* the switch on the card ID field of port 3BAh
CardIdSwitch(st) ==
    LET id == BitAnd(Shr(st, 4), 7)
    IN CASE id = 1 -> vid_set(VID_HERCPLUS, 1)
         [] id = 5 -> vid_set_ex(VID_INCOLOR, 0, MonoBase)
         [] OTHER -> vid_set(VID_HERCULES, 1)

\* i++ on a 16-bit int
Inc16(n) == ToInt(n + 1)

\* the ColorPlus probe without the restoring outp(0x3DD, 0x00) of line 234
ColorPlusProbe_NoRestore(rb1, rb2) ==
    IF rb1 = 85
    THEN IF rb2 = 170
         THEN [io |-> <<<<"out", 85>>, <<"in", rb1>>, <<"out", 170>>, <<"in", rb2>>,
                        <<"out", 0>>>>,
               d |-> vid_set(VID_COLORPLUS, 0)]
         ELSE [io |-> <<<<"out", 85>>, <<"in", rb1>>, <<"out", 170>>, <<"in", rb2>>>>,
               d |-> vid_set(VID_CGA, 0)]
    ELSE [io |-> <<<<"out", 85>>, <<"in", rb1>>>>,
          d |-> vid_set(VID_CGA, 0)]

\* the ColorPlus probe of step 6 when port 3DDh reads back rb1, then rb2:
\* the outp / inp calls made, in order, and the classification
ColorPlusProbe(rb1, rb2) ==
    IF rb1 = 85
    THEN IF rb2 = 170
         THEN [io |-> <<<<"out", 85>>, <<"in", rb1>>, <<"out", 170>>, <<"in", rb2>>,
                        <<"out", 0>>>>,
               d |-> vid_set(VID_COLORPLUS, 0)]
         ELSE [io |-> <<<<"out", 85>>, <<"in", rb1>>, <<"out", 170>>, <<"in", rb2>>,
                        <<"out", 0>>>>,
               d |-> vid_set(VID_CGA, 0)]
    ELSE [io |-> <<<<"out", 85>>, <<"in", rb1>>, <<"out", 0>>>>,
          d |-> vid_set(VID_CGA, 0)]

\* the three statics assigned by vid_set / vid_set_ex, then return d.type
Classify(d, step) ==
    /\ vid_adapter_type' = d.type
    /\ vid_mono' = d.mono
    /\ vid_base' = d.base
    /\ nset' = [base |-> nset.base + 1, mono |-> nset.mono + 1,
                type |-> nset.type + 1]
    /\ retval' = d.type
    /\ via' = step
    /\ pc' = "ret"

Statics == <<vid_base, vid_adapter_type, vid_mono, nset>>
Output == <<vram, last, writes, nops>>

Init ==
    /\ vid_base = NullPtr
    /\ vid_adapter_type = 0
    /\ vid_mono = 0
    /\ pc = "step1"
    /\ regs = [ax |-> 0, bx |-> 0]
    /\ equip = 0
    /\ i = 0
    /\ val = 0
    /\ changed = 0
    /\ retval = -1
    /\ port3DD = -1
    /\ vram = {}
    /\ probes = {}
    /\ via = 0
    /\ iolog = <<>>
    /\ polls = 0
    /\ nset = [base |-> 0, mono |-> 0, type |-> 0]
    /\ last = [op |-> "none", args |-> <<>>, attr |-> 0]
    /\ writes = <<>>
    /\ nops = 0

\* Step 1: INT 10h AH=1Ah and the switch on BL
Step1_VideoState ==
    /\ pc = "step1"
    /\ \E a \in VideoStateAnswers :
         /\ regs' = [ax |-> a[1], bx |-> a[2]]
         /\ probes' = probes \cup {"int10_1A"}
         /\ IF a[1] = 26 /\ a[2] \in KnownCodes
            THEN Classify(DisplayCodeSwitch(a[2]), 1)
            ELSE /\ pc' = "step2"
                 /\ UNCHANGED <<Statics, retval, via>>
    /\ UNCHANGED <<equip, i, val, changed, port3DD, iolog, polls, Output>>

\* Step 2: INT 10h AH=12h BL=10h
Step2_EgaSelect ==
    /\ pc = "step2"
    /\ \E a \in EgaAnswers :
         /\ regs' = [ax |-> (18 * 256) + (regs.ax % 256), bx |-> (a[2] * 256) + a[1]]
         /\ probes' = probes \cup {"int10_12"}
         /\ IF a[1] # 16
            THEN Classify(vid_set(VID_EGA, IF a[2] # 0 THEN 1 ELSE 0), 2)
            ELSE /\ pc' = "step3"
                 /\ UNCHANGED <<Statics, retval, via>>
    /\ UNCHANGED <<equip, i, val, changed, port3DD, iolog, polls, Output>>

\* Step 3: detect_pga()
Step3_Pga ==
    /\ pc = "step3"
    /\ \E a \in PgaAnswers :
         /\ probes' = probes \cup {"pga"}
         /\ IF detect_pga(a[1], a[2]) # 0
            THEN Classify(vid_set(VID_PGA, 0), 3)
            ELSE /\ pc' = "step4"
                 /\ UNCHANGED <<Statics, retval, via>>
    /\ UNCHANGED <<regs, equip, i, val, changed, port3DD, iolog, polls, Output>>

\* Step 4: INT 11h; on the monochrome branch vid_base is assigned, the
\* status port is read once and the poll loop is entered
Step4_Equip ==
    /\ pc = "step4"
    /\ \E w \in EquipWords, st \in StatusBytes :
         /\ regs' = [regs EXCEPT !.ax = w]
         /\ equip' = ToInt(w)
         /\ IF BitAnd(Shr(ToInt(w), 4), 3) = 3
            THEN /\ vid_base' = MonoBase
                 /\ nset' = [nset EXCEPT !.base = @ + 1]
                 /\ val' = BitAnd(st, 128)
                 /\ changed' = 0
                 /\ i' = 0
                 /\ probes' = probes \cup {"int11", "port3BA"}
                 /\ pc' = "poll"
            ELSE /\ probes' = probes \cup {"int11"}
                 /\ pc' = "step6"
                 /\ UNCHANGED <<vid_base, nset, val, changed, i>>
    /\ UNCHANGED <<vid_adapter_type, vid_mono, retval, via, port3DD, iolog,
                   polls, Output>>

\* Step 5, one evaluation of the loop condition i < 32768 (32768 is a long
\* constant, so i is compared by value) and, when it holds, one loop body.
\* i is not read after the loop: its value is dropped on leaving it, and the
\* poll count with it.
Step5_Poll ==
    /\ pc = "poll"
    /\ IF i < Ceiling
       THEN \E st \in StatusBytes :
              IF BitAnd(st, 128) # val
              THEN /\ changed' = 1
                   /\ pc' = "after_loop"
                   /\ i' = 0
                   /\ polls' = 0
              ELSE /\ i' = Inc16(i)
                   /\ polls' = IF polls > Ceiling THEN polls ELSE polls + 1
                   /\ UNCHANGED <<changed, pc>>
       ELSE /\ pc' = "after_loop"
            /\ i' = 0
            /\ polls' = 0
            /\ UNCHANGED changed
    /\ UNCHANGED <<Statics, regs, equip, val, retval, via, port3DD, iolog,
                   probes, Output>>

\* Step 5, after the loop: the card ID switch, or MDA
Step5_AfterLoop ==
    /\ pc = "after_loop"
    /\ IF changed # 0
       THEN \E st \in StatusBytes : Classify(CardIdSwitch(st), 5)
       ELSE Classify(vid_set(VID_MDA, 1), 5)
    /\ UNCHANGED <<regs, equip, i, val, changed, port3DD, iolog, polls,
                   probes, Output>>

\* Step 6: the ColorPlus probe on port 3DDh, CGA otherwise
Step6_ColorPlus ==
    /\ pc = "step6"
    /\ \E rb1 \in ReadBacks, rb2 \in ReadBacks :
         LET r == ColorPlusProbe(rb1, rb2)
         IN /\ iolog' = iolog \o r.io
            /\ port3DD' = r.io[Len(r.io)][2]
            /\ Classify(r.d, 6)
    /\ probes' = probes \cup {"port3DD"}
    /\ UNCHANGED <<regs, equip, i, val, changed, polls, Output>>

\* return from vid_init: its locals go out of scope
Return ==
    /\ pc = "ret"
    /\ pc' = "ready"
    /\ regs' = [ax |-> 0, bx |-> 0]
    /\ equip' = 0
    /\ i' = 0
    /\ val' = 0
    /\ changed' = 0
    /\ probes' = {}
    /\ via' = 0
    /\ iolog' = <<>>
    /\ polls' = 0
    /\ UNCHANGED <<Statics, retval, port3DD, Output>>

vid_init ==
    \/ Step1_VideoState
    \/ Step2_EgaSelect
    \/ Step3_Pga
    \/ Step4_Equip
    \/ Step5_Poll
    \/ Step5_AfterLoop
    \/ Step6_ColorPlus
    \/ Return

(***************************************************************************)
(* Attribute mapping: vid_map_attr                                         *)
(***************************************************************************)
\* vid_map_attr with the last branch keeping the foreground instead of 0x07
vid_map_attr_Slip(attr) ==
    IF vid_mono = 0 THEN attr
    ELSE LET blink == BitAnd(attr, 128)
             fg == BitAnd(attr, 15)
             bg == BitAnd(Shr(attr, 4), 7)
             mapped == IF fg = 0 /\ bg = 0 THEN 0
                       ELSE IF bg # 0 THEN 112
                       ELSE IF BitAnd(fg, 8) # 0 THEN 15
                       ELSE IF fg = 1 THEN 1
                       ELSE fg
         IN BitOr(mapped, blink)

vid_map_attr(attr) ==
    IF vid_mono = 0 THEN attr
    ELSE LET blink == BitAnd(attr, 128)
             fg == BitAnd(attr, 15)
             bg == BitAnd(Shr(attr, 4), 7)
             mapped == IF fg = 0 /\ bg = 0 THEN 0
                       ELSE IF bg # 0 THEN 112
                       ELSE IF BitAnd(fg, 8) # 0 THEN 15
                       ELSE IF fg = 1 THEN 1
                       ELSE 7
         IN BitOr(mapped, blink)

(***************************************************************************)
(* Output primitives.  Each yields the cells it writes, in order: a cell   *)
(* write is *p = ch; *(p + 1) = a at far pointer p.                        *)
(***************************************************************************)
\* vid_base + ((row * VID_COLS + col) << 1)
CellPtr(row, col) == FarAdd(vid_base, Shl(ToInt((row * VID_COLS) + col), 1))

CellWrite(p, ch, a) == [addr |-> p, ch |-> ToByte(ch), attr |-> ToByte(a)]

vid_putc(row, col, ch, attr) ==
    LET a == IF vid_mono # 0 THEN vid_map_attr(attr) ELSE attr
        p == CellPtr(row, col)
    IN <<CellWrite(p, ch, a)>>

\* s is the string without its terminating 0
vid_puts(row, col, s, attr) ==
    LET a == IF vid_mono # 0 THEN vid_map_attr(attr) ELSE attr
        p == CellPtr(row, col)
    IN [k \in 1..Len(s) |-> CellWrite(FarAdd(p, 2 * (k - 1)), s[k], a)]

\* the loop of vid_putsn from iteration k on: s is what is left of the string
RECURSIVE PutsnLoop(_, _, _, _, _)
PutsnLoop(p, s, k, n, a) ==
    IF k < n
    THEN <<CellWrite(p, IF s # <<>> THEN Head(s) ELSE SPACE, a)>>
         \o PutsnLoop(FarAdd(p, 2), IF s # <<>> THEN Tail(s) ELSE s, k + 1, n, a)
    ELSE <<>>

\* vid_putsn stopping at the end of the string instead of padding
vid_putsn_Slip(row, col, s, n, attr) ==
    LET a == IF vid_mono # 0 THEN vid_map_attr(attr) ELSE attr
        p == CellPtr(row, col)
    IN PutsnLoop(p, s, 0, IF Len(s) < n THEN Len(s) ELSE n, a)

vid_putsn(row, col, s, n, attr) ==
    LET a == IF vid_mono # 0 THEN vid_map_attr(attr) ELSE attr
        p == CellPtr(row, col)
    IN PutsnLoop(p, s, 0, n, a)

\* vid_fill storing the attribute as passed, without the mapping
vid_fill_Slip(row, col, ch, attr, count) ==
    LET a == attr
        p == CellPtr(row, col)
    IN [k \in 1..count |-> CellWrite(FarAdd(p, 2 * (k - 1)), ch, a)]

vid_fill(row, col, ch, attr, count) ==
    LET a == IF vid_mono # 0 THEN vid_map_attr(attr) ELSE attr
        p == CellPtr(row, col)
    IN [k \in 1..count |-> CellWrite(FarAdd(p, 2 * (k - 1)), ch, a)]

\* the count is an int expression: it is kept to 16 bits
vid_clear(attr) == vid_fill(0, 0, SPACE, attr, ToInt(VID_ROWS * VID_COLS))

vid_clear_rows(start_row, end_row, attr) ==
    vid_fill(start_row, 0, SPACE, attr,
             ToInt(ToInt(ToInt(end_row - start_row) + 1) * VID_COLS))

vid_hline(row, col, n, attr) == vid_fill(row, col, VID_BOX_H, attr, n)

vid_vline(row, col, n, attr) ==
    [k \in 1..n |-> vid_putc(row + (k - 1), col, VID_BOX_V, attr)[1]]

\* vid_box with horizontal edges of length c2 - c1
vid_box_Slip(r1, c1, r2, c2, attr) ==
    vid_putc(r1, c1, VID_BOX_TL, attr)
    \o vid_putc(r1, c2, VID_BOX_TR, attr)
    \o vid_putc(r2, c1, VID_BOX_BL, attr)
    \o vid_putc(r2, c2, VID_BOX_BR, attr)
    \o vid_hline(r1, c1 + 1, c2 - c1, attr)
    \o vid_hline(r2, c1 + 1, c2 - c1, attr)
    \o vid_vline(r1 + 1, c1, (r2 - r1) - 1, attr)
    \o vid_vline(r1 + 1, c2, (r2 - r1) - 1, attr)

vid_box(r1, c1, r2, c2, attr) ==
    vid_putc(r1, c1, VID_BOX_TL, attr)
    \o vid_putc(r1, c2, VID_BOX_TR, attr)
    \o vid_putc(r2, c1, VID_BOX_BL, attr)
    \o vid_putc(r2, c2, VID_BOX_BR, attr)
    \o vid_hline(r1, c1 + 1, (c2 - c1) - 1, attr)
    \o vid_hline(r2, c1 + 1, (c2 - c1) - 1, attr)
    \o vid_vline(r1 + 1, c1, (r2 - r1) - 1, attr)
    \o vid_vline(r1 + 1, c2, (r2 - r1) - 1, attr)

(***************************************************************************)
(* Hex output                                                              *)
(***************************************************************************)
\* static char hex_digits[] = "0123456789ABCDEF" (hex_digits[d] is HexDigits[d + 1])
HexDigits == <<48, 49, 50, 51, 52, 53, 54, 55, 56, 57, 65, 66, 67, 68, 69, 70>>

\* val (hv) is an int
vid_put_hex_byte(row, col, hv, attr) ==
    vid_putc(row, col, HexDigits[BitAnd(Shr(hv, 4), 15) + 1], attr)
    \o vid_putc(row, ToInt(col + 1), HexDigits[BitAnd(hv, 15) + 1], attr)

\* val (hv) is an unsigned int: the shift is logical
vid_put_hex_word(row, col, hv, attr) ==
    vid_put_hex_byte(row, col, ((hv % Word) \div 256) % 256, attr)
    \o vid_put_hex_byte(row, ToInt(col + 2), (hv % Word) % 256, attr)

\* val (hv) is a long: the shift is arithmetic, the mask keeps 16 bits
vid_put_hex_long(row, col, hv, attr) ==
    vid_put_hex_word(row, col, (hv \div 65536) % 65536, attr)
    \o vid_put_hex_word(row, ToInt(col + 4), hv % 65536, attr)

(***************************************************************************)
(* Scrolling                                                               *)
(***************************************************************************)
\* the registers vid_scroll_up (fn = 6) and vid_scroll_down (fn = 7) pass to
\* INT 10h: <<AH, AL, BH, CH, CL, DH, DL>>
ScrollRegs(fn, top, bot, left, right, n, attr) ==
    <<fn, ToByte(n),
      ToByte(IF vid_mono # 0 THEN vid_map_attr(attr) ELSE attr),
      ToByte(top), ToByte(left), ToByte(bot), ToByte(right)>>

\* whether the cell at addr lies in the window CH..DH x CL..DL of the text
\* buffer at vid_base, which the BIOS rewrites
ScrollWindow(addr, r) ==
    /\ addr[1] = vid_base[1]
    /\ LET k == ((addr[2] - vid_base[2]) % Word) \div 2
       IN /\ k \div VID_COLS \in r[4]..r[6]
          /\ k % VID_COLS \in r[5]..r[7]

\* video memory after the cell writes w, the later write of a cell winning
Store(mem, w) ==
    LET A == {w[k].addr : k \in DOMAIN w}
        lasts == IF Cardinality(A) = Len(w)
                 THEN {w[k] : k \in DOMAIN w}
                 ELSE {w[k] : k \in {k \in DOMAIN w :
                          \A j \in (k + 1)..Len(w) : w[j].addr # w[k].addr}}
    IN {t \in mem : t.addr \notin A} \cup lasts

(***************************************************************************)
(* Arguments the callers pass (all cells in range)                         *)
(***************************************************************************)
Attrs == {30, 137}
\* attribute bytes reaching every branch of the mapping, with and without blink
PutcAttrs == {0, 1, 2, 7, 8, 9, 15, 16, 23, 112, 120, 127, 128, 129, 135, 143,
              240, 255}
Strings == {<<>>, <<65, 66>>, <<65, 66, 67>>}
PutcCells == {<<12, 40>>}
PutsCells == {<<0, 0>>, <<3, 78>>}
PutsnCells == {<<1, 0>>}
Counts == {-1, 0, 2, 5}
FillCells == {<<0, 0>>, <<2, 70>>}
FillCounts == {-1, 0, 15}
RowRanges == {<<0, 0>>, <<23, 24>>, <<5, 4>>}
Lines == {<<1, 1, 3>>, <<6, 6, 0>>}
HexBytes == {171, 9}
HexWords == {48879}
HexLongs == {305441741, -2}
\* <<top, bot, left, right, n>>
ScrollWindows == {<<0, 24, 0, 79, 1>>, <<1, 3, 0, 79, 0>>}
Boxes == {<<2, 2, 5, 10>>, <<0, 0, 24, 79>>, <<1, 1, 2, 2>>, <<3, 3, 3, 8>>,
          <<4, 4, 6, 4>>, <<5, 5, 4, 4>>}

\* a public output operation called after vid_init returned
Call(op, args, attr, w) ==
    /\ pc = "ready"
    /\ nops < MaxOps
    /\ last' = [op |-> op, args |-> args, attr |-> attr]
    /\ writes' = w
    /\ vram' = Store(vram, w)
    /\ nops' = nops + 1
    /\ UNCHANGED <<Statics, pc, regs, equip, i, val, changed, retval, port3DD,
                   probes, via, iolog, polls>>

PutC ==
    \E c \in PutcCells, attr \in PutcAttrs :
        Call("putc", <<c[1], c[2], 65, attr>>, attr, vid_putc(c[1], c[2], 65, attr))

PutS ==
    \E c \in PutsCells, s \in Strings, attr \in Attrs :
        Call("puts", <<c[1], c[2], s, attr>>, attr, vid_puts(c[1], c[2], s, attr))

PutSN ==
    \E c \in PutsnCells, s \in Strings, n \in Counts, attr \in Attrs :
        Call("putsn", <<c[1], c[2], s, n, attr>>, attr, vid_putsn(c[1], c[2], s, n, attr))

Fill ==
    \E c \in FillCells, n \in FillCounts, attr \in Attrs :
        Call("fill", <<c[1], c[2], 42, attr, n>>, attr, vid_fill(c[1], c[2], 42, attr, n))

Clear ==
    \E attr \in Attrs : Call("clear", <<attr>>, attr, vid_clear(attr))

ClearRows ==
    \E r \in RowRanges, attr \in Attrs :
        Call("clear_rows", <<r[1], r[2], attr>>, attr, vid_clear_rows(r[1], r[2], attr))

HLine ==
    \E l \in Lines, attr \in Attrs :
        Call("hline", <<l[1], l[2], l[3], attr>>, attr, vid_hline(l[1], l[2], l[3], attr))

VLine ==
    \E l \in Lines, attr \in Attrs :
        Call("vline", <<l[1], l[2], l[3], attr>>, attr, vid_vline(l[1], l[2], l[3], attr))

Box ==
    \E b \in Boxes, attr \in Attrs :
        Call("box", <<b[1], b[2], b[3], b[4], attr>>, attr,
             vid_box(b[1], b[2], b[3], b[4], attr))

HexByte ==
    \E v \in HexBytes, attr \in Attrs :
        Call("hex_byte", <<0, 0, v, attr>>, attr, vid_put_hex_byte(0, 0, v, attr))

HexWord ==
    \E v \in HexWords, attr \in Attrs :
        Call("hex_word", <<1, 0, v, attr>>, attr, vid_put_hex_word(1, 0, v, attr))

HexLong ==
    \E v \in HexLongs, attr \in Attrs :
        Call("hex_long", <<2, 0, v, attr>>, attr, vid_put_hex_long(2, 0, v, attr))

\* vid_scroll_up / vid_scroll_down: the program writes no memory itself; the
\* BIOS rewrites the window, whose cells no longer hold what the program
\* wrote.  last.args is the register set passed to INT 10h.
ScrollCall(fn) ==
    /\ pc = "ready"
    /\ nops < MaxOps
    /\ \E w \in ScrollWindows, attr \in Attrs :
         \E r \in {ScrollRegs(fn, w[1], w[2], w[3], w[4], w[5], attr)} :
            /\ last' = [op |-> IF fn = 6 THEN "scroll_up" ELSE "scroll_down",
                        args |-> r, attr |-> attr]
            /\ vram' = {t \in vram : ~ScrollWindow(t.addr, r)}
    /\ writes' = <<>>
    /\ nops' = nops + 1
    /\ UNCHANGED <<Statics, pc, regs, equip, i, val, changed, retval, port3DD,
                   probes, via, iolog, polls>>

ScrollUp == ScrollCall(6)

ScrollDown == ScrollCall(7)

\* vid_map_attr called by the application: last.args holds the value returned
MapAttr ==
    /\ pc = "ready"
    /\ nops < MaxOps
    /\ \E attr \in Byte :
         last' = [op |-> "map_attr", args |-> <<vid_map_attr(attr)>>, attr |-> attr]
    /\ nops' = nops + 1
    /\ UNCHANGED <<Statics, pc, regs, equip, i, val, changed, retval, port3DD,
                   vram, probes, via, iolog, polls, writes>>

Writer == PutC \/ PutS \/ PutSN \/ Fill \/ Clear \/ ClearRows

Drawing == HLine \/ VLine \/ Box

Hex == HexByte \/ HexWord \/ HexLong

Scrolling == ScrollUp \/ ScrollDown

Next == vid_init \/ Writer \/ Drawing \/ Hex \/ Scrolling
Spec == Init /\ [][Next]_vars

\* the detection followed by calls of the attribute mapper alone
NextAttr == vid_init \/ MapAttr
SpecAttr == Init /\ [][NextAttr]_vars

(***************************************************************************)
(* Properties of the detection                                             *)
(***************************************************************************)
RegAL == regs.ax % 256
RegBL == regs.bx % 256
RegBH == regs.bx \div 256
\* the port writes of this run of vid_init, in order
OutBytes == [k \in 1..Cardinality({j \in DOMAIN iolog : iolog[j][1] = "out"}) |->
               iolog[CHOOSE j \in DOMAIN iolog :
                       /\ iolog[j][1] = "out"
                       /\ Cardinality({m \in 1..j : iolog[m][1] = "out"}) = k][2]]

\* C1 (as claimed): the retrace poll loop makes at most 32768 polls: with
\* bit 7 of port 3BAh constant it ends after the 32768th poll and vid_init
\* goes on to return MDA.
C1_PollsBounded == polls <= Ceiling

\* C2 (as claimed): whenever INT 10h AH=1Ah reports success (AL = 1Ah),
\* vid_init stops at step 1, whatever the display code in BL: step 2 is
\* never entered after a successful query.
C2_SuccessStops == ~(pc = "step2" /\ RegAL = 26)

\* the display code table of step 1: <<type, mono_flag>>
C2_Table(bl) ==
    CASE bl = 1 -> <<VID_MDA, 1>>
      [] bl = 2 -> <<VID_CGA, 0>>
      [] bl = 4 -> <<VID_EGA, 0>>
      [] bl = 5 -> <<VID_EGA, 1>>
      [] bl = 6 -> <<VID_PGA, 0>>
      [] bl = 7 -> <<VID_VGA, 1>>
      [] bl = 8 -> <<VID_VGA, 0>>
      [] bl = 10 -> <<VID_MCGA, 0>>
      [] bl = 11 -> <<VID_MCGA, 1>>
      [] bl = 12 -> <<VID_MCGA, 0>>

\* C2 (amended): whenever INT 10h AH=1Ah reports success and the display
\* code is one of 01h 02h 04h 05h 06h 07h 08h 0Ah 0Bh 0Ch, vid_init stops at
\* step 1: step 2 is not entered, no later probe is performed, no port is
\* touched, and type and mono flag are those the table gives for the code.
\* A run that stopped at step 1 had such an answer.
C2_KnownCodeStops ==
    /\ pc = "step2" => ~(RegAL = 26 /\ RegBL \in {1, 2, 4, 5, 6, 7, 8, 10, 11, 12})
    /\ (pc = "ret" /\ probes = {"int10_1A"}) =>
          /\ RegAL = 26
          /\ RegBL \in {1, 2, 4, 5, 6, 7, 8, 10, 11, 12}
          /\ <<vid_adapter_type, vid_mono>> = C2_Table(RegBL)
          /\ retval = vid_adapter_type
          /\ iolog = <<>>
    /\ (pc = "ret" /\ via = 1) => probes = {"int10_1A"}

\* C2 witness: a successful query with display code 0Bh stopped at step 1 as
\* MCGA with the mono flag set.
C2_Witness ==
    /\ pc = "ret"
    /\ probes = {"int10_1A"}
    /\ RegAL = 26
    /\ RegBL = 11
    /\ vid_adapter_type = VID_MCGA
    /\ vid_mono = 1

\* whether the probe that classified reported a monochrome display
C3_MonoVariant ==
    \/ via = 1 /\ RegBL \in {5, 7, 11}
    \/ via = 2 /\ RegBH # 0

\* C3: after vid_init returned, the descriptor holds one of the ten types,
\* the mono flag is set exactly for MDA, Hercules, HerculesPlus and the mono
\* variants of EGA, VGA and MCGA, and the base is the mono buffer exactly
\* when the mono flag is set or the type is InColor.
C3_LookupTable ==
    pc = "ret" =>
      /\ vid_adapter_type \in AdapterTypes
      /\ retval = vid_adapter_type
      /\ vid_mono \in {0, 1}
      /\ vid_base \in {MonoBase, ColorBase}
      /\ vid_mono = 1 <=>
            \/ vid_adapter_type \in {VID_MDA, VID_HERCULES, VID_HERCPLUS}
            \/ vid_adapter_type \in {VID_EGA, VID_VGA, VID_MCGA} /\ C3_MonoVariant
      /\ vid_base = MonoBase <=> (vid_mono = 1 \/ vid_adapter_type = VID_INCOLOR)
      /\ (vid_mono = 0 /\ vid_base = MonoBase) => vid_adapter_type = VID_INCOLOR

\* C3 witness: vid_init returned InColor, mono flag clear, mono buffer.
C3_Witness ==
    /\ pc = "ret"
    /\ vid_adapter_type = VID_INCOLOR
    /\ vid_mono = 0
    /\ vid_base = MonoBase

\* C4 (as claimed): vid_base, vid_mono and vid_adapter_type are assigned
\* together and at most once: there is never a state in which vid_base has
\* been assigned more often than the other two, or assigned twice.
C4_SetTogetherOnce ==
    /\ nset.base = nset.mono
    /\ nset.base = nset.type
    /\ nset.base <= 1

\* C5: port 3DDh is written only on runs that reach step 6 (steps 1 to 3
\* did not match, equipment bits not 11b).  On such a run the first byte
\* written is 55h, the last is 00h, the result is ColorPlus (mono flag
\* clear) exactly when 55h and then AAh were read back, and CGA otherwise.
\* A run that classifies at steps 1 to 5 writes no port and no memory.
C5_ProbeAndRestore ==
    pc = "ret" =>
      /\ via = 6 <=> iolog # <<>>
      /\ via = 6 <=> "port3DD" \in probes
      /\ via = 6 =>
            /\ probes = {"int10_1A", "int10_12", "pga", "int11", "port3DD"}
            /\ BitAnd(Shr(equip, 4), 3) # 3
            /\ OutBytes # <<>>
            /\ OutBytes[1] = 85
            /\ OutBytes[Len(OutBytes)] = 0
            /\ port3DD = 0
            /\ vid_adapter_type \in {VID_COLORPLUS, VID_CGA}
            /\ vid_mono = 0
            /\ vid_adapter_type = VID_COLORPLUS <=>
                  /\ Len(iolog) = 5
                  /\ iolog[2] = <<"in", 85>>
                  /\ iolog[3] = <<"out", 170>>
                  /\ iolog[4] = <<"in", 170>>
      /\ via # 6 => (port3DD = -1 /\ vram = {})

\* C5 witness: the second round trip failed, the port was restored and the
\* adapter classified as CGA.
C5_Witness ==
    /\ pc = "ret"
    /\ via = 6
    /\ iolog = <<<<"out", 85>>, <<"in", 85>>, <<"out", 170>>, <<"in", 255>>, <<"out", 0>>>>
    /\ port3DD = 0
    /\ vid_adapter_type = VID_CGA

(***************************************************************************)
(* Properties of the attribute mapping and of the output primitives        *)
(***************************************************************************)
\* the far address of the cell at (row, col), columns counted on linearly
CellAddr(row, col) == <<vid_base[1], vid_base[2] + (2 * ((row * VID_COLS) + col))>>
\* the row a far address of the buffer lies in
RowOf(addr) == ((addr[2] - vid_base[2]) \div 2) \div VID_COLS
\* the attribute byte the adapter is to get for attribute a
MappedAttr(a) ==
    IF vid_mono = 0 THEN a
    ELSE LET blink == (a \div 128) * 128
             fg == a % 16
             bg == (a \div 16) % 8
         IN blink + (IF fg = 0 /\ bg = 0 THEN 0
                     ELSE IF bg # 0 THEN 112
                     ELSE IF fg >= 8 THEN 15
                     ELSE IF fg = 1 THEN 1
                     ELSE 7)
Max0(n) == IF n > 0 THEN n ELSE 0

\* C6: with the mono flag set, vid_map_attr maps every attribute byte into
\* {00h, 01h, 07h, 0Fh, 70h, 80h, 81h, 87h, 8Fh, F0h}, and mapping the
\* result again gives the result.
C6_IdempotentRange ==
    (last.op = "map_attr" /\ vid_mono # 0) =>
      /\ last.args[1] \in {0, 1, 7, 15, 112, 128, 129, 135, 143, 240}
      /\ vid_map_attr(last.args[1]) = last.args[1]

\* C6 witness: with the mono flag set, attribute 9Eh was mapped to F0h.
C6_Witness ==
    /\ last.op = "map_attr"
    /\ vid_mono = 1
    /\ last.attr = 158
    /\ last.args = <<240>>

\* C7: vid_putsn(row, col, s, n, attr) writes exactly n consecutive cells
\* from (row, col) on, none for n <= 0: cell k holds the k-th character of
\* s where s has one and a space otherwise, with the mapped attribute;
\* characters of s beyond the first n are not written.
C7_FixedWidth ==
    last.op = "putsn" =>
      LET row == last.args[1]
          col == last.args[2]
          s == last.args[3]
          n == last.args[4]
      IN /\ Len(writes) = Max0(n)
         /\ \A k \in 1..Len(writes) :
               /\ writes[k] = [addr |-> CellAddr(row, col + (k - 1)),
                               ch |-> IF k <= Len(s) THEN s[k] ELSE SPACE,
                               attr |-> MappedAttr(last.attr)]
               /\ writes[k] \in vram

\* C7 witness: vid_putsn(1, 0, "AB", 5, attr) wrote A, B and three spaces.
C7_Witness ==
    /\ last.op = "putsn"
    /\ last.args[3] = <<65, 66>>
    /\ last.args[4] = 5
    /\ [k \in 1..Len(writes) |-> writes[k].ch] = <<65, 66, 32, 32, 32>>

\* the cells on the border of the rectangle
Perimeter(r1, c1, r2, c2) ==
    {rc \in (r1..r2) \X (c1..c2) : rc[1] \in {r1, r2} \/ rc[2] \in {c1, c2}}

\* the glyph vid_box is to put at (r, c)
Glyph(r1, c1, r2, c2, r, c) ==
    IF r = r1 /\ c = c1 THEN VID_BOX_TL
    ELSE IF r = r1 /\ c = c2 THEN VID_BOX_TR
    ELSE IF r = r2 /\ c = c1 THEN VID_BOX_BL
    ELSE IF r = r2 /\ c = c2 THEN VID_BOX_BR
    ELSE IF r = r1 \/ r = r2 THEN VID_BOX_H
    ELSE VID_BOX_V

\* the writes of the last operation that stored glyph g
GlyphCount(g) == Cardinality({k \in DOMAIN writes : writes[k].ch = g})

\* C8 (as claimed): vid_box(2, 2, 5, 10, attr) writes 4 corner cells, 14
\* cells of horizontal edge and 6 cells of vertical edge.
C8_Example_14_6 ==
    (last.op = "box" /\ SubSeq(last.args, 1, 4) = <<2, 2, 5, 10>>) =>
      /\ GlyphCount(VID_BOX_TL) + GlyphCount(VID_BOX_TR)
           + GlyphCount(VID_BOX_BL) + GlyphCount(VID_BOX_BR) = 4
      /\ GlyphCount(VID_BOX_H) = 14
      /\ GlyphCount(VID_BOX_V) = 6

\* C8 (amended): vid_box(r1, c1, r2, c2, attr) with r2 > r1 and c2 > c1
\* writes the cells of the perimeter and no other, each once: 4 corners,
\* 2 * (c2 - c1 - 1) cells of horizontal edge, 2 * (r2 - r1 - 1) cells of
\* vertical edge; for vid_box(2, 2, 5, 10, attr) that is 4 corners, 14
\* horizontal and 4 vertical.  With c2 <= c1 no horizontal edge cell is
\* written, with r2 <= r1 no vertical edge cell.
C8_BoxPerimeter ==
    last.op = "box" =>
      LET r1 == last.args[1]
          c1 == last.args[2]
          r2 == last.args[3]
          c2 == last.args[4]
          W == {writes[k].addr : k \in DOMAIN writes}
      IN /\ Len(writes) = 4 + (2 * Max0((c2 - c1) - 1)) + (2 * Max0((r2 - r1) - 1))
         /\ GlyphCount(VID_BOX_H) = 2 * Max0((c2 - c1) - 1)
         /\ GlyphCount(VID_BOX_V) = 2 * Max0((r2 - r1) - 1)
         /\ c2 <= c1 => \A k \in DOMAIN writes : writes[k].ch # VID_BOX_H
         /\ r2 <= r1 => \A k \in DOMAIN writes : writes[k].ch # VID_BOX_V
         /\ <<r1, c1, r2, c2>> = <<2, 2, 5, 10>> =>
               (GlyphCount(VID_BOX_H) = 14 /\ GlyphCount(VID_BOX_V) = 4)
         /\ (r2 > r1 /\ c2 > c1) =>
               /\ W = {CellAddr(rc[1], rc[2]) : rc \in Perimeter(r1, c1, r2, c2)}
               /\ Cardinality(W) = Len(writes)
               /\ \A rc \in Perimeter(r1, c1, r2, c2) :
                     [addr |-> CellAddr(rc[1], rc[2]),
                      ch |-> Glyph(r1, c1, r2, c2, rc[1], rc[2]),
                      attr |-> MappedAttr(last.attr)] \in vram
               /\ \A k \in DOMAIN writes : writes[k] \in vram

\* C8 witness: vid_box(2, 2, 5, 10, attr) wrote 22 cells: 4 corners, 14
\* cells of horizontal edge and 4 of vertical edge.
C8_Witness ==
    /\ last.op = "box"
    /\ SubSeq(last.args, 1, 4) = <<2, 2, 5, 10>>
    /\ Len(writes) = 22
    /\ GlyphCount(VID_BOX_H) = 14
    /\ GlyphCount(VID_BOX_V) = 4

\* C9 (as claimed): vid_puts(row, col, s, attr) writes no cell in a row
\* other than row, however long s is.
C9_NoWrap ==
    last.op = "puts" =>
      \A k \in DOMAIN writes : RowOf(writes[k].addr) = last.args[1]

====
